---- MODULE Spec2Model ----
(***************************************************************************)
(* Model of the search core: the two search-string generators, the session *)
(* provider (one setup per credential, all started by one batch call) and  *)
(* the work partitioner.                                                   *)
(***************************************************************************)
EXTENDS Integers, Sequences, FiniteSets, TLC

VARIABLES
    searchRawData,                      \* input of the two generators
    resultA,                            \* what generateSearchStringsBySearchRawData returned
    resultB,                            \* what generateSearchStringsCompanyOrProductsBySearchRawData returned
    userCredentials,                    \* the credential list of the batch / of the partitioner
    files,                              \* the session storage: name -> file
    pc,                                 \* per setup: the await it is suspended at
    storageState,                       \* per setup: the local variable storageState
    context,                            \* per setup: the local variable context (line 30)
    browserContexts,                    \* per setup: the session the setup resolved with
    readGot,                            \* per setup: what fs.readFile produced
    loginCalls,                         \* per setup: calls of a login routine
    wrote,                              \* per setup: what fs.writeFile was given
    touched,                            \* per storage name: the setups that read or wrote it
    promise,                            \* state of the batch's Promise.all
    browserContextsByUserCredentials,   \* the mapping the batch returned
    searchStringsKeys,                  \* keys(searchStrings) of the partitioner
    searchStringsByBrowserContexts      \* what getSearchStringsByBrowserContexts returned

genVars  == <<searchRawData, resultA, resultB>>
sessVars == <<files, pc, storageState, context, browserContexts, readGot, loginCalls, wrote,
              touched, promise, browserContextsByUserCredentials>>
partVars == <<searchStringsKeys, searchStringsByBrowserContexts>>
vars     == <<searchRawData, resultA, resultB, userCredentials, files, pc,
              storageState, context, browserContexts, readGot, loginCalls,
              wrote, touched,
              promise, browserContextsByUserCredentials, searchStringsKeys,
              searchStringsByBrowserContexts>>

----------------------------------------------------------------------------
(* Bounds *)

MaxRecords == 2      \* records in searchRawData
MaxSetups == 2       \* credentials in one batch of session setups
MaxGroup == 3        \* credentials handed to the partitioner alone
MaxKeys == 5         \* query-string keys handed to the partitioner

----------------------------------------------------------------------------
(* Helpers: sequences and plain JavaScript objects *)

Range(s) == { s[i] : i \in 1..Len(s) }

Min(a, b) == IF a < b THEN a ELSE b

SeqsUpTo(S, n) == UNION { [1..k -> S] : k \in 0..n }

\* A plain object: its own keys in insertion order, and their values.
EmptyObject == [keys |-> <<>>, val |-> <<>>]

HasKey(o, k) == k \in Range(o.keys)

\* An assignment that would keep the value an existing key already has.
SetKeepFirst(o, k, v) ==
    IF HasKey(o, k) THEN o
    ELSE [keys |-> Append(o.keys, k), val |-> (k :> v) @@ o.val]

\* memo[k] = v: a new key is appended, an existing key keeps its place and
\* takes the new value.
ObjectSet(o, k, v) ==
    [keys |-> IF HasKey(o, k) THEN o.keys ELSE Append(o.keys, k),
     val  |-> (k :> v) @@ o.val]

\* A call that has not returned yet, and one that returned v.
NotReturned == [returned |-> FALSE, value |-> EmptyObject]

Returned(v) == [returned |-> TRUE, value |-> v]

----------------------------------------------------------------------------
(* Search-string generators *)

Companies == {"Acme", "Acme Widget"}

ProductLists == {<<>>, <<"Widget">>, <<"Widget", "Pro">>}

KeywordLists == {<<>>, <<"leak">>, <<"leak", "hack">>}

SearchOptions == {"o1"}

Records ==
    [companyName : Companies, productNames : ProductLists,
     incidentKeywords : KeywordLists, searchOptions : SearchOptions]

\* isEmpty(item.productNames)
isEmpty(s) == Len(s) = 0

\* First-level words that would keep the bare company name next to the
\* prefixed products.
FirstSearchWordsAlwaysCompany(item) ==
    <<item.companyName>> \o
    [i \in 1..Len(item.productNames) |->
        item.companyName \o " " \o item.productNames[i]]

\* firstSearchWords of variant A
FirstSearchWordsA(item) ==
    IF ~isEmpty(item.productNames)
    THEN [i \in 1..Len(item.productNames) |->
            item.companyName \o " " \o item.productNames[i]]
    ELSE <<item.companyName>>

\* the inner each(item.incidentKeywords, ...) for one partOfSearch
RECURSIVE EachIncidentKeyword(_, _, _, _)
EachIncidentKeyword(memo, item, partOfSearch, j) ==
    IF j > Len(item.incidentKeywords) THEN memo
    ELSE LET searchString == partOfSearch \o " " \o item.incidentKeywords[j]
         IN EachIncidentKeyword(
                ObjectSet(memo, searchString,
                          [companyName   |-> item.companyName,
                           searchString  |-> searchString,
                           searchOptions |-> item.searchOptions]),
                item, partOfSearch, j + 1)

\* the outer each(firstSearchWords, ...)
RECURSIVE EachFirstSearchWordA(_, _, _, _)
EachFirstSearchWordA(memo, item, firstSearchWords, i) ==
    IF i > Len(firstSearchWords) THEN memo
    ELSE EachFirstSearchWordA(
            EachIncidentKeyword(memo, item, firstSearchWords[i], 1),
            item, firstSearchWords, i + 1)

RECURSIVE ReduceA(_, _, _)
ReduceA(memo, data, n) ==
    IF n > Len(data) THEN memo
    ELSE ReduceA(EachFirstSearchWordA(memo, data[n], FirstSearchWordsA(data[n]), 1),
                 data, n + 1)

generateSearchStringsBySearchRawData(data) == ReduceA(EmptyObject, data, 1)

\* First-level words that would name the company only when there are no
\* products.
FirstSearchWordsFallbackOnly(item) ==
    IF ~isEmpty(item.productNames) THEN item.productNames
    ELSE <<item.companyName>>

\* firstSearchWords of variant B
FirstSearchWordsB(item) ==
    IF ~isEmpty(item.productNames)
    THEN <<item.companyName>> \o item.productNames
    ELSE <<item.companyName>>

RECURSIVE EachFirstSearchWordB(_, _, _, _)
EachFirstSearchWordB(memo, item, firstSearchWords, i) ==
    IF i > Len(firstSearchWords) THEN memo
    ELSE EachFirstSearchWordB(
            ObjectSet(memo, firstSearchWords[i],
                      [companyName      |-> item.companyName,
                       incidentKeywords |-> item.incidentKeywords,
                       searchString     |-> firstSearchWords[i],
                       searchOptions    |-> item.searchOptions]),
            item, firstSearchWords, i + 1)

RECURSIVE ReduceB(_, _, _)
ReduceB(memo, data, n) ==
    IF n > Len(data) THEN memo
    ELSE ReduceB(EachFirstSearchWordB(memo, data[n], FirstSearchWordsB(data[n]), 1),
                 data, n + 1)

generateSearchStringsCompanyOrProductsBySearchRawData(data) ==
    ReduceB(EmptyObject, data, 1)

----------------------------------------------------------------------------
(* Credentials, storage names and identity keys *)

Credential(t, u) == [type |-> t, username |-> u, password |-> "pw"]

\* The credentials a batch of session setups is drawn from; "linkedin" is a
\* type without a login routine.
BatchCredentials ==
    {Credential("facebook", "a"), Credential("facebook", "b"),
     Credential("instagram", "a"), Credential("linkedin", "a")}

\* The credentials the partitioner alone is run on.
PartitionCredentials ==
    {Credential(t, u) : t \in {"facebook", "instagram"}, u \in {"a", "b", "c"}}

\* A storage name that would depend on the type only.
NameIgnoringUsername(userCredential) ==
    "storageStateFor[" \o userCredential.type \o "].json"

getNameForStorageStateByUserCredential(userCredential) ==
    "storageStateFor[" \o userCredential.type \o "][" \o
    userCredential.username \o "].json"

getKeyByUserCredential(userCredential) ==
    userCredential.type \o "-" \o userCredential.username

StorageNames ==
    { "storageStateFor[" \o c.type \o "][" \o c.username \o "].json" :
        c \in BatchCredentials }
    \cup { "storageStateFor[" \o c.type \o "].json" : c \in BatchCredentials }

----------------------------------------------------------------------------
(* Session state and its serialisation *)

\* The storage state a browser context holds (playwright's storageState()).
NoState == [cookies |-> "none"]

StoredState == [cookies |-> "c0"]

LoginStates == {[cookies |-> "c1"], [cookies |-> "c2"]}

SessionStates == {StoredState} \cup LoginStates

JSONstringify(storage) == "{\"cookies\":\"" \o storage.cookies \o "\"}"

JSONparse(text) == CHOOSE storage \in SessionStates : JSONstringify(storage) = text

getStorageStateAfterFacebookLogin(storage) == JSONstringify(storage)

getStorageStateAfterInstagramLogin(storage) == JSONstringify(storage)

NoFile == [exists |-> FALSE, data |-> ""]

File(data) == [exists |-> TRUE, data |-> data]

\* The files a storage name can hold before a batch starts: none, an empty
\* file, or the state an earlier run persisted.
InitialFiles == {NoFile, File(""), File(JSONstringify(StoredState))}

\* A write that would not reach the storage.
WriteNothing(f, name, data) == f

\* fs.writeFile(name, data)

writeFile(f, name, data) == [f EXCEPT ![name] = File(data)]

\* try { storageState = await fs.readFile(name) } catch { log }
readFileOrEmpty(f, name) ==
    IF f[name].exists THEN f[name].data ELSE ""

\* A test that would never take the stored state.
NeverStored(text) == FALSE

\* storageState.length > 0

HasStoredState(text) == Len(text) > 0

HasLoginRoutine(userCredential) ==
    userCredential.type \in {"facebook", "instagram"}

NoSession == [owner |-> 0, kind |-> "none", storageState |-> NoState]

\* browser.newContext() of setup i, and browser.newContext({storageState})
BareContext(i) == [owner |-> i, kind |-> "bare", storageState |-> NoState]

SeededContext(i, storage) == [owner |-> i, kind |-> "seeded", storageState |-> storage]

----------------------------------------------------------------------------
(* The batch: Promise.all over the setups, then the reduce into a mapping *)

\* A collection that would wait for every setup and resolve whatever its
\* outcome.
PromiseAllSettled(p) ==
    IF \A i \in DOMAIN p : p[i] \in {"done", "failed"} THEN "resolved"
    ELSE "pending"

\* Promise.all: rejected by the first setup that fails, resolved when all
\* setups are done.
PromiseAll(p) ==
    IF \E i \in DOMAIN p : p[i] = "failed" THEN "rejected"
    ELSE IF \A i \in DOMAIN p : p[i] = "done" THEN "resolved"
    ELSE "pending"

RECURSIVE ReduceContexts(_, _, _, _)
ReduceContexts(memo, credentials, contexts, i) ==
    IF i > Len(credentials) THEN memo
    ELSE ReduceContexts(
            ObjectSet(memo, getKeyByUserCredential(credentials[i]), contexts[i]),
            credentials, contexts, i + 1)

\* What getBrowserContextsByUserCredentialsKey has returned once the
\* setups stand at p with results contexts.
BatchResult(credentials, p, contexts) ==
    IF PromiseAll(p) = "resolved"
    THEN Returned(ReduceContexts(EmptyObject, credentials, contexts, 1))
    ELSE NotReturned

----------------------------------------------------------------------------
(* Work partitioner *)

\* A share: an array of keys, or undefined (an index past the last chunk).
Undefined == [defined |-> FALSE, items |-> <<>>]

Defined(items) == [defined |-> TRUE, items |-> items]

\* Math.floor(a / b)
MathFloorDiv(a, b) == a \div b

\* Math.ceil(a / b)

MathCeilDiv(a, b) == (a + b - 1) \div b

\* lodash chunk(array, size), size >= 1
RECURSIVE chunk(_, _)
chunk(array, size) ==
    IF Len(array) = 0 THEN <<>>
    ELSE <<SubSeq(array, 1, Min(size, Len(array)))>> \o
         chunk(SubSeq(array, Min(size, Len(array)) + 1, Len(array)), size)

\* lodash groupBy(userCredentials, 'type'): the types in order of first
\* occurrence, each with its credentials in list order.
RECURSIVE TypesInOrder(_, _, _)
TypesInOrder(seen, credentials, i) ==
    IF i > Len(credentials) THEN seen
    ELSE TypesInOrder(
            IF credentials[i].type \in Range(seen) THEN seen
            ELSE Append(seen, credentials[i].type),
            credentials, i + 1)

OfType(credentials, t) == SelectSeq(credentials, LAMBDA c : c.type = t)

groupBy(credentials) ==
    [keys |-> TypesInOrder(<<>>, credentials, 1),
     val  |-> [t \in Range(TypesInOrder(<<>>, credentials, 1)) |->
                 OfType(credentials, t)]]

\* searchStringsByChanks of one group
searchStringsByChanks(sizeOfParts, keyList) ==
    LET totalSize == Len(keyList)
    IN IF sizeOfParts >= totalSize THEN <<keyList>>
       ELSE chunk(keyList, MathCeilDiv(totalSize, sizeOfParts))

\* array[index] with a 1-based index
At(array, index) ==
    IF index \in 1..Len(array) THEN Defined(array[index]) ELSE Undefined

\* the each(userCredentialsByType, ...) of one group
RECURSIVE EachCredentialOfType(_, _, _, _)
EachCredentialOfType(memo, userCredentialsByType, chunks, index) ==
    IF index > Len(userCredentialsByType) THEN memo
    ELSE EachCredentialOfType(
            ObjectSet(memo, getKeyByUserCredential(userCredentialsByType[index]),
                      At(chunks, index)),
            userCredentialsByType, chunks, index + 1)

RECURSIVE ReduceGroups(_, _, _, _)
ReduceGroups(memo, grouped, keyList, g) ==
    IF g > Len(grouped.keys) THEN memo
    ELSE LET userCredentialsByType == grouped.val[grouped.keys[g]]
         IN ReduceGroups(
                EachCredentialOfType(
                    memo, userCredentialsByType,
                    searchStringsByChanks(Len(userCredentialsByType), keyList), 1),
                grouped, keyList, g + 1)

getSearchStringsByBrowserContexts(credentials, keyList) ==
    ReduceGroups(EmptyObject, groupBy(credentials), keyList, 1)

\* The ordered key list of a searchStrings object with n keys.
KeyList(n) == [i \in 1..n |-> "q" \o ToString(i)]

----------------------------------------------------------------------------
(* Initial states *)

NotRead == [status |-> "pending", data |-> ""]

NoGeneration ==
    /\ searchRawData = <<>>
    /\ resultA = NotReturned
    /\ resultB = NotReturned

NoPartition ==
    /\ searchStringsKeys = <<>>
    /\ searchStringsByBrowserContexts = NotReturned

\* No batch of setups is running.
NoBatch ==
    /\ files = [n \in StorageNames |-> NoFile]
    /\ pc = <<>>
    /\ storageState = <<>>
    /\ context = <<>>
    /\ browserContexts = <<>>
    /\ readGot = <<>>
    /\ loginCalls = <<>>
    /\ wrote = <<>>
    /\ touched = [n \in StorageNames |-> {}]
    /\ promise = "none"
    /\ browserContextsByUserCredentials = NotReturned

UsedNames(credentials) ==
    { getNameForStorageStateByUserCredential(credentials[i]) :
        i \in DOMAIN credentials }

\* getBrowserContextsByUserCredentialsKey has started one setup per
\* credential; each has created its context and issued its storage read.
Init ==
    /\ NoGeneration
    /\ NoPartition
    /\ userCredentials \in SeqsUpTo(BatchCredentials, MaxSetups)
    /\ \E stored \in [UsedNames(userCredentials) -> InitialFiles] :
           files = [n \in StorageNames |->
                        IF n \in UsedNames(userCredentials) THEN stored[n] ELSE NoFile]
    /\ pc = [i \in DOMAIN userCredentials |-> "readFile"]
    /\ storageState = [i \in DOMAIN userCredentials |-> ""]
    /\ context = [i \in DOMAIN userCredentials |-> BareContext(i)]
    /\ browserContexts = [i \in DOMAIN userCredentials |-> NoSession]
    /\ readGot = [i \in DOMAIN userCredentials |-> NotRead]
    /\ loginCalls = [i \in DOMAIN userCredentials |-> 0]
    /\ wrote = [i \in DOMAIN userCredentials |-> NoFile]
    /\ touched = [n \in StorageNames |-> {}]
    /\ promise = PromiseAll(pc)
    /\ browserContextsByUserCredentials =
           BatchResult(userCredentials, pc, browserContexts)

InitPart ==
    /\ NoGeneration
    /\ NoPartition
    /\ NoBatch
    /\ userCredentials \in SeqsUpTo(PartitionCredentials, MaxGroup)

InitGen ==
    /\ searchRawData \in SeqsUpTo(Records, MaxRecords)
    /\ resultA = NotReturned
    /\ resultB = NotReturned
    /\ NoPartition
    /\ NoBatch
    /\ userCredentials = <<>>

----------------------------------------------------------------------------
(* getBrowserContextWithLoggedInStoregeState, one setup per credential *)

\* Setup i resolves with session: Promise.all and the reduce that follows
\* it run in the same turn when this was the last setup.
Resolves(i, session) ==
    /\ pc' = [pc EXCEPT ![i] = "done"]
    /\ browserContexts' = [browserContexts EXCEPT ![i] = session]
    /\ promise' = PromiseAll(pc')
    /\ browserContextsByUserCredentials' =
           BatchResult(userCredentials, pc', browserContexts')

Suspends(i, at) ==
    /\ pc' = [pc EXCEPT ![i] = at]
    /\ UNCHANGED <<browserContexts, promise, browserContextsByUserCredentials>>

\* Lines 33-61: the read completes (or fails and is logged), then the branch.
ReadFile(i) ==
    /\ pc[i] = "readFile"
    /\ LET name == getNameForStorageStateByUserCredential(userCredentials[i])
           text == readFileOrEmpty(files, name)
       IN /\ storageState' = [storageState EXCEPT ![i] = text]
          /\ readGot' = [readGot EXCEPT ![i] =
                            [status |-> IF files[name].exists THEN "ok" ELSE "ENOENT",
                             data   |-> text]]
          /\ touched' = [touched EXCEPT ![name] = @ \cup {i}]
          /\ IF HasStoredState(text) THEN Suspends(i, "newContext")
             ELSE IF HasLoginRoutine(userCredentials[i]) THEN Suspends(i, "login")
             ELSE Resolves(i, context[i])
    /\ UNCHANGED <<files, context, loginCalls, wrote>>
    /\ UNCHANGED <<genVars, partVars, userCredentials>>

\* Line 46: the context seeded with the parsed state is created and returned.
NewContextWithStorageState(i) ==
    /\ pc[i] = "newContext"
    /\ Resolves(i, SeededContext(i, JSONparse(storageState[i])))
    /\ UNCHANGED <<files, storageState, context, readGot, loginCalls, wrote, touched>>
    /\ UNCHANGED <<genVars, partVars, userCredentials>>

\* Lines 49-58: the login routine of the credential's type returns the
\* serialised state of the context it logged in.
Login(i) ==
    /\ pc[i] = "login"
    /\ \E storage \in LoginStates :
          /\ storageState' = [storageState EXCEPT ![i] =
                IF userCredentials[i].type = "facebook"
                THEN getStorageStateAfterFacebookLogin(storage)
                ELSE getStorageStateAfterInstagramLogin(storage)]
          /\ context' = [context EXCEPT ![i].storageState = storage]
    /\ loginCalls' = [loginCalls EXCEPT ![i] = @ + 1]
    /\ Suspends(i, "writeFile")
    /\ UNCHANGED <<files, readGot, wrote, touched>>
    /\ UNCHANGED <<genVars, partVars, userCredentials>>

\* The login routine throws: nothing catches it, the setup rejects.
LoginFails(i) ==
    /\ pc[i] = "login"
    /\ loginCalls' = [loginCalls EXCEPT ![i] = @ + 1]
    /\ pc' = [pc EXCEPT ![i] = "failed"]
    /\ promise' = PromiseAll(pc')
    /\ browserContextsByUserCredentials' =
           BatchResult(userCredentials, pc', browserContexts)
    /\ UNCHANGED <<files, storageState, context, browserContexts, readGot, wrote, touched>>
    /\ UNCHANGED <<genVars, partVars, userCredentials>>

\* Lines 63-67: the write reaches the storage; the setup resumes later.
WriteFile(i) ==
    /\ pc[i] = "writeFile"
    /\ LET name == getNameForStorageStateByUserCredential(userCredentials[i])
       IN /\ files' = writeFile(files, name, storageState[i])
          /\ touched' = [touched EXCEPT ![name] = @ \cup {i}]
    /\ wrote' = [wrote EXCEPT ![i] = File(storageState[i])]
    /\ Suspends(i, "written")
    /\ UNCHANGED <<storageState, context, readGot, loginCalls>>
    /\ UNCHANGED <<genVars, partVars, userCredentials>>

\* Line 69: the setup resumes after the write and returns its context.
ReturnContext(i) ==
    /\ pc[i] = "written"
    /\ Resolves(i, context[i])
    /\ UNCHANGED <<files, storageState, context, readGot, loginCalls, wrote, touched>>
    /\ UNCHANGED <<genVars, partVars, userCredentials>>

----------------------------------------------------------------------------
(* The partitioner and the generators as steps *)

Partition ==
    /\ ~searchStringsByBrowserContexts.returned
    /\ \E n \in 0..MaxKeys :
          /\ searchStringsKeys' = KeyList(n)
          /\ searchStringsByBrowserContexts' =
                Returned(getSearchStringsByBrowserContexts(userCredentials, KeyList(n)))
    /\ UNCHANGED <<genVars, sessVars, userCredentials>>

\* The caller partitions the work once it holds the sessions.
AssignWork ==
    /\ promise = "resolved"
    /\ Partition

GenerateA ==
    /\ ~resultA.returned
    /\ resultA' = Returned(generateSearchStringsBySearchRawData(searchRawData))
    /\ UNCHANGED <<searchRawData, resultB, sessVars, partVars, userCredentials>>

GenerateB ==
    /\ ~resultB.returned
    /\ resultB' =
          Returned(generateSearchStringsCompanyOrProductsBySearchRawData(searchRawData))
    /\ UNCHANGED <<searchRawData, resultA, sessVars, partVars, userCredentials>>

----------------------------------------------------------------------------
(* Specifications *)

Next ==
    \/ \E i \in DOMAIN userCredentials : ReadFile(i)
    \/ \E i \in DOMAIN userCredentials : NewContextWithStorageState(i)
    \/ \E i \in DOMAIN userCredentials : Login(i)
    \/ \E i \in DOMAIN userCredentials : LoginFails(i)
    \/ \E i \in DOMAIN userCredentials : WriteFile(i)
    \/ \E i \in DOMAIN userCredentials : ReturnContext(i)
    \/ AssignWork

Spec == Init /\ [][Next]_vars

NextPart == Partition

SpecPart == InitPart /\ [][NextPart]_vars

NextGen == GenerateA \/ GenerateB

SpecGen == InitGen /\ [][NextGen]_vars

----------------------------------------------------------------------------
(* Vocabulary of the properties *)

Setups == DOMAIN userCredentials

NameOf(i) == "storageStateFor[" \o userCredentials[i].type \o "][" \o
             userCredentials[i].username \o "].json"

KeyOf(i) == userCredentials[i].type \o "-" \o userCredentials[i].username

DistinctKeys == \A i, j \in Setups : i # j => KeyOf(i) # KeyOf(j)

\* No other setup of the batch uses the storage name of setup i.
Unshared(i) == \A j \in Setups : j # i => NameOf(j) # NameOf(i)

\* The last credential of the list with the identity key of credential i.
Later(i) == CHOOSE j \in Setups :
                /\ KeyOf(j) = KeyOf(i)
                /\ \A k \in Setups : KeyOf(k) = KeyOf(i) => k <= j

\* The platform group of credential i, as positions of the list, and the
\* place of i in it (from 1).
GroupOf(i) == { j \in Setups : userCredentials[j].type = userCredentials[i].type }

PlaceInGroup(i) == Cardinality({ j \in GroupOf(i) : j <= i })

GroupHasDistinctKeys(i) ==
    \A j, k \in GroupOf(i) : j # k => KeyOf(j) # KeyOf(k)

TotalSize == Len(searchStringsKeys)

Assigned(i) == searchStringsByBrowserContexts.value.val[KeyOf(i)]

\* The keys of the shares of i's group, in the order of the group.
RECURSIVE SharesFrom(_, _)
SharesFrom(i, j) ==
    IF j > Len(userCredentials) THEN <<>>
    ELSE IF j \in GroupOf(i) /\ Assigned(j).defined
         THEN Assigned(j).items \o SharesFrom(i, j + 1)
         ELSE SharesFrom(i, j + 1)

\* The chunk the partitioner cuts for the credential at position i.
ChunkFor(i) ==
    LET P == Cardinality(GroupOf(i))
        size == IF TotalSize % P = 0 THEN TotalSize \div P ELSE TotalSize \div P + 1
        from == (PlaceInGroup(i) - 1) * size + 1
    IN IF P >= TotalSize
       THEN IF PlaceInGroup(i) = 1 THEN Defined(searchStringsKeys) ELSE Undefined
       ELSE IF from > TotalSize THEN Undefined
       ELSE Defined(SubSeq(searchStringsKeys, from, Min(from + size - 1, TotalSize)))

ReadEmpty(i) == readGot[i].status \in {"ok", "ENOENT"} /\ readGot[i].data = ""

ReadStored(i) == readGot[i].status = "ok" /\ readGot[i].data # ""

FileAtRead(i) == IF readGot[i].status = "ok" THEN File(readGot[i].data) ELSE NoFile

----------------------------------------------------------------------------
(* Properties *)

\* C1: after the partitioner returns, in every platform group of P
\* credentials with pairwise distinct identity keys and P >= N keys (N = 0
\* included), every credential of the group is mapped to the full ordered
\* key list.
C1_FullListForEveryCredential ==
    searchStringsByBrowserContexts.returned =>
        \A i \in Setups :
            (GroupHasDistinctKeys(i) /\ Cardinality(GroupOf(i)) >= TotalSize)
                => Assigned(i) = Defined(searchStringsKeys)

\* C2: in every platform group of P credentials with pairwise distinct
\* identity keys and P < N keys, the shares of the group's credentials,
\* concatenated in the group's order, are exactly the ordered key list;
\* every key is in exactly one share, once, and each share is a contiguous
\* run of the key list.
C2_SharesConcatenateToKeyList ==
    searchStringsByBrowserContexts.returned =>
        \A i \in Setups :
            (GroupHasDistinctKeys(i) /\ Cardinality(GroupOf(i)) < TotalSize) =>
                /\ SharesFrom(i, 1) = searchStringsKeys
                /\ \A k \in 1..TotalSize :
                       Cardinality({ <<j, m>> \in GroupOf(i) \X (1..TotalSize) :
                                        /\ Assigned(j).defined
                                        /\ m <= Len(Assigned(j).items)
                                        /\ Assigned(j).items[m] = searchStringsKeys[k] }) = 1
                /\ Assigned(i).defined =>
                       \E a \in 1..TotalSize :
                           Assigned(i).items =
                               SubSeq(searchStringsKeys, a, a + Len(Assigned(i).items) - 1)

\* Witness of C2: 5 keys and a group of 2 credentials, shares of 3 and 2.
C2_Witness ==
    /\ searchStringsByBrowserContexts.returned
    /\ TotalSize = 5
    /\ Len(userCredentials) = 2
    /\ KeyOf(1) # KeyOf(2)
    /\ GroupOf(1) = {1, 2}
    /\ Assigned(1) = Defined(<<"q1", "q2", "q3">>)
    /\ Assigned(2) = Defined(<<"q4", "q5">>)

\* C3: a setup whose storage read returned non-empty state returns a
\* session seeded with exactly that state, never invokes a login routine
\* and writes nothing: the storage entry stays what it read.
C3_StoredStateIsReused ==
    \A i \in Setups :
        ReadStored(i) =>
            /\ pc[i] \in {"newContext", "done"}
            /\ loginCalls[i] = 0
            /\ wrote[i] = NoFile
            /\ Unshared(i) => files[NameOf(i)] = File(readGot[i].data)
            /\ pc[i] = "done" =>
                   \E storage \in SessionStates :
                       /\ JSONstringify(storage) = readGot[i].data
                       /\ browserContexts[i] =
                              [owner |-> i, kind |-> "seeded", storageState |-> storage]

C3_Witness ==
    \E i \in Setups : ReadStored(i) /\ pc[i] = "done"

\* C4 as stated: a setup whose read failed or was empty and whose type has
\* a login routine has invoked it exactly once when it returns, and at the
\* step that returns its session the storage entry under its storage name
\* holds exactly the string the login routine returned.
C4_StoredWhenReturning ==
    [][\A i \in Setups :
          (ReadEmpty(i) /\ HasLoginRoutine(userCredentials[i])
              /\ pc[i] # "done" /\ pc'[i] = "done")
          => /\ loginCalls[i] = 1
             /\ files[NameOf(i)] = File(storageState[i])]_vars

\* C4 amended: the same, for a setup whose storage name no other setup of
\* the batch uses; the entry then holds the login's string from the return on.
C4_StoredWhenReturningUnshared ==
    \A i \in Setups :
        (ReadEmpty(i) /\ HasLoginRoutine(userCredentials[i]) /\ Unshared(i)) =>
            /\ loginCalls[i] <= 1
            /\ pc[i] = "done" =>
                   /\ loginCalls[i] = 1
                   /\ wrote[i] = File(storageState[i])
                   /\ files[NameOf(i)] = File(storageState[i])
                   /\ \E storage \in LoginStates :
                          storageState[i] = JSONstringify(storage)

C4_Witness ==
    \E i \in Setups :
        /\ readGot[i].status = "ENOENT"
        /\ HasLoginRoutine(userCredentials[i])
        /\ Unshared(i)
        /\ Len(userCredentials) > 1
        /\ pc[i] = "done"

\* C5: when the login routine of a setup fails, nothing catches it, the
\* batch is rejected and returns no mapping (not a partial one), and the
\* failing setup has written nothing, so its storage entry is what it was;
\* a failed storage read alone never fails the setup or the batch.
C5_LoginFailureFailsTheBatch ==
    /\ \A i \in Setups :
          pc[i] = "failed" =>
              /\ promise = "rejected"
              /\ ~browserContextsByUserCredentials.returned
              /\ loginCalls[i] = 1
              /\ wrote[i] = NoFile
              /\ Unshared(i) => files[NameOf(i)] = FileAtRead(i)
    /\ \A i \in Setups :
          (readGot[i].status = "ENOENT" /\ loginCalls[i] = 0) =>
              pc[i] \in {"login", "done"}
    /\ promise = "rejected" => \E i \in Setups : pc[i] = "failed" /\ loginCalls[i] = 1

\* Witness of C5: one setup failed in its login after a failed read while
\* another setup of the batch completed.
C5_Witness ==
    \E i, j \in Setups :
        /\ pc[i] = "failed"
        /\ readGot[i].status = "ENOENT"
        /\ pc[j] = "done"

\* C6: the key set of variant A's result is the set of w + " " + k over
\* every record, every incident keyword k and every first-level word w of
\* the record: companyName + " " + p for each product p when there are
\* products (the bare company name is then no first-level word), else the
\* bare companyName.
C6_VariantAKeys ==
    resultA.returned =>
        /\ Range(resultA.value.keys) =
              UNION { { w \o " " \o r.incidentKeywords[k] :
                          w \in (IF r.productNames = <<>>
                                 THEN {r.companyName}
                                 ELSE { r.companyName \o " " \o p :
                                          p \in Range(r.productNames) }),
                          k \in 1..Len(r.incidentKeywords) } :
                      r \in Range(searchRawData) }
        /\ DOMAIN resultA.value.val = Range(resultA.value.keys)

C6_Witness ==
    /\ resultA.returned
    /\ \E m, n \in 1..Len(searchRawData) :
          /\ searchRawData[m].productNames = <<>>
          /\ searchRawData[m].incidentKeywords # <<>>
          /\ Len(searchRawData[n].productNames) = 2
          /\ Len(searchRawData[n].incidentKeywords) = 2

\* C7: variant B's result has every record's bare companyName as a key,
\* products or not, and its key set is the union over the records of
\* {companyName} and the record's product names.
C7_VariantBKeys ==
    resultB.returned =>
        /\ \A n \in 1..Len(searchRawData) :
              HasKey(resultB.value, searchRawData[n].companyName)
        /\ Range(resultB.value.keys) =
              UNION { {r.companyName} \cup Range(r.productNames) :
                      r \in Range(searchRawData) }
        /\ DOMAIN resultB.value.val = Range(resultB.value.keys)

C7_Witness ==
    /\ resultB.returned
    /\ \E m, n \in 1..Len(searchRawData) :
          /\ searchRawData[m].productNames = <<>>
          /\ searchRawData[n].productNames # <<>>

\* C8: when two credentials of the list have the same identity key, the
\* session mapping holds under that key the session of the later one in
\* list order, and the partition mapping holds the later one's share.
C8_LaterCredentialWins ==
    /\ browserContextsByUserCredentials.returned =>
          \A i \in Setups :
              browserContextsByUserCredentials.value.val[KeyOf(i)] =
                  browserContexts[Later(i)]
    /\ searchStringsByBrowserContexts.returned =>
          \A i \in Setups : Assigned(i) = ChunkFor(Later(i))

\* Witness of C8: both mappings built from a list with a repeated key
\* whose two credentials have different shares.
C8_Witness ==
    /\ browserContextsByUserCredentials.returned
    /\ searchStringsByBrowserContexts.returned
    /\ \E i, j \in Setups :
          /\ i < j
          /\ KeyOf(i) = KeyOf(j)
          /\ ChunkFor(i).defined
          /\ ChunkFor(j).defined
          /\ ChunkFor(i) # ChunkFor(j)

\* C9: in a batch whose credentials have pairwise distinct identity keys,
\* no storage name is read or written by more than one setup.
C9_NoSharedStorageName ==
    DistinctKeys =>
        /\ \A n \in StorageNames : Cardinality(touched[n]) <= 1
        /\ \A i, j \in Setups :
              i # j => getNameForStorageStateByUserCredential(userCredentials[i])
                         # getNameForStorageStateByUserCredential(userCredentials[j])
        /\ \A i \in Setups :
              readGot[i].status # "pending" => wrote[i] \in {NoFile, files[NameOf(i)]}

\* Witness of C9: two setups with distinct keys of the same platform have
\* both read and written their entries.
C9_Witness ==
    /\ DistinctKeys
    /\ \E i, j \in Setups :
          /\ i # j
          /\ userCredentials[i].type = userCredentials[j].type
          /\ wrote[i] # NoFile
          /\ wrote[j] # NoFile

\* C10: in every platform group of P credentials with pairwise distinct
\* identity keys and N keys, 1 <= P < N, every credential of the group is
\* mapped to a defined, non-empty share.
C10_EveryCredentialHasAShare ==
    searchStringsByBrowserContexts.returned =>
        \A i \in Setups :
            (GroupHasDistinctKeys(i) /\ Cardinality(GroupOf(i)) < TotalSize) =>
                /\ Assigned(i).defined
                /\ Len(Assigned(i).items) > 0

====
